---------------------------- MODULE Spec2Model ----------------------------
(***************************************************************************)
(* Bakin Terrain Smoother (bakin_terrain_smoother.py): the two smoothers,  *)
(* the UV tile selector and the UV tile partitioner/exporter, each as one  *)
(* atomic operator invocation on an explicit mesh.                         *)
(*                                                                         *)
(* Numbers.  Python floats are modelled by exact rationals <<num, den>>    *)
(* (den > 0, lowest terms).  Vertex positions are heights on one vertical  *)
(* line (x and y equal for all vertices), so that Vector.length is the     *)
(* exact absolute difference; UV inputs are dyadic fractions, which are    *)
(* exact in binary floating point too.  Normals are integer 3-vectors.     *)
(***************************************************************************)
EXTENDS Integers, Sequences, FiniteSets, TLC

VARIABLES
    obj,              \* type of context.active_object: "MESH", "CURVE", "NONE"
    co,               \* v.co for every vertex of bm.verts (index order)
    normal,           \* v.normal for every vertex
    select,           \* v.select for every vertex
    edges,            \* bm.edges, as two-element sets of vertices
    faces,            \* bm.faces: sequence of [verts, uvs]; one loop per corner
    uv_layer,         \* bm.loops.layers.uv.active is present
    texture,          \* <<width, height>> of the material's image, <<>> if none
    tile_x, tile_y,   \* scene.uv_tile_props
    filepath,         \* bpy.data.filepath is non-empty (the blend file is saved)
    texture_folder,   \* os.path.exists(texture_source_folder)
    op,               \* the operator that has run, "none" before
    arg,              \* its argument (smoothing factor, iterations), <<>> if none
    result,           \* what the invocation returned or raised
    reports,          \* self.report calls, in order
    pre,              \* co, select and edges as they were when the operator started
    out,              \* values the operator computed (uv rectangle, counts, flats)
    exported_objects, \* the sub-meshes made by the partitioner, in order
    log               \* file-system and mesh steps of the exporter, in order

vars == <<obj, co, normal, select, edges, faces, uv_layer, texture, tile_x,
          tile_y, filepath, texture_folder, op, arg, result, reports, pre,
          out, exported_objects, log>>

(***************************************************************************)
(* Bounds of the model.                                                    *)
(***************************************************************************)
NumVerts == 3
MaxIter == 2
NumFaces == 2

Verts == 1..NumVerts

(***************************************************************************)
(* Exact rational arithmetic standing for Python float arithmetic.         *)
(***************************************************************************)
RECURSIVE GCD(_, _)
GCD(a, b) == IF b = 0 THEN a ELSE GCD(b, a % b)

Abs(n) == IF n < 0 THEN -n ELSE n

Norm(n, d) ==
    LET g == GCD(Abs(n), d)
    IN  IF n >= 0 THEN <<n \div g, d \div g>> ELSE <<-((-n) \div g), d \div g>>

Rat(n) == <<n, 1>>
RAdd(a, b) == Norm(a[1] * b[2] + b[1] * a[2], a[2] * b[2])
RSub(a, b) == Norm(a[1] * b[2] - b[1] * a[2], a[2] * b[2])
RMul(a, b) == Norm(a[1] * b[1], a[2] * b[2])
\* a / b for b # 0; Python raises ZeroDivisionError for b = 0, which the
\* callers test before dividing
RDiv(a, b) ==
    IF b[1] > 0 THEN Norm(a[1] * b[2], a[2] * b[1])
                ELSE Norm(-(a[1] * b[2]), -(a[2] * b[1]))
RLess(a, b) == a[1] * b[2] < b[1] * a[2]
RLeq(a, b) == a[1] * b[2] <= b[1] * a[2]
RAbs(a) == <<Abs(a[1]), a[2]>>

RECURSIVE RSum(_, _)
\* sum(f[x] for x in S)
RSum(S, f) ==
    IF S = {} THEN Rat(0)
    ELSE LET x == CHOOSE y \in S : TRUE
         IN  RAdd(f[x], RSum(S \ {x}, f))

\* (a - b).length for two positions on the common vertical line
Length(a, b) == RAbs(RSub(a, b))

\* a.lerp(b, f) of mathutils: (1 - f) * a + f * b
Lerp(a, b, f) == RAdd(RMul(RSub(Rat(1), f), a), RMul(f, b))

(***************************************************************************)
(* Mesh adjacency: [e.other_vert(v) for e in v.link_edges].                *)
(***************************************************************************)
OtherVerts(v) == {w \in Verts : {v, w} \in edges}

(***************************************************************************)
(* smooth_selected_voxel_terrain(smoothing_factor)                         *)
(***************************************************************************)
\* the voxel-size cutoff 1.5 of the neighbour test
VoxelCutoff == <<3, 2>>

AllVertsList(sel) == Verts

\* selected_verts = [v for v in bm.verts if v.select]
SelectedVerts(sel) == {v \in Verts : sel[v]}

\* neighbours of v kept by the loop over v.link_edges
Neighbors(v, pos, sel) ==
    {w \in OtherVerts(v) : sel[w] /\ RLess(Length(pos[v], pos[w]), VoxelCutoff)}

\* distance_factors = [1 / (v.co - n).length for n in neighbors] divides by 0.0
RaisesZeroDivision(v, pos, N) == \E w \in N : Length(pos[v], pos[w]) = Rat(0)

\* weighted_avg: sum(n * w_n) / sum(w_n) with w_n = 1 / distance
WeightedAvg(v, pos, N) ==
    LET w == [n \in N |-> RDiv(Rat(1), Length(pos[v], pos[n]))]
        total_weight == RSum(N, w)
    IN  RDiv(RSum(N, [n \in N |-> RMul(pos[n], w[n])]), total_weight)

RECURSIVE SmoothLoop(_, _, _, _)
\* the loop "for v in selected_verts", in bm.verts order, from vertex i on;
\* every v.co is assigned in place, so later vertices read moved neighbours
SmoothLoop(i, pos, sel, f) ==
    IF i > NumVerts THEN [co |-> pos, raised |-> FALSE]
    ELSE IF i \notin SelectedVerts(sel) THEN SmoothLoop(i + 1, pos, sel, f)
    ELSE LET N == Neighbors(i, pos, sel)
         IN  IF N = {} THEN SmoothLoop(i + 1, pos, sel, f)
             ELSE IF RaisesZeroDivision(i, pos, N)
                  THEN [co |-> pos, raised |-> TRUE]
                  ELSE SmoothLoop(i + 1,
                          [pos EXCEPT ![i] = Lerp(pos[i], WeightedAvg(i, pos, N), f)],
                          sel, f)

\* Scene.smoothing_factor is a float property with min 0 and max 1
SmoothingFactors == {<<0, 1>>, <<1, 2>>, <<1, 1>>}

NoOut == [kind |-> "none"]

\* SmoothVoxelTerrainOperator.execute: no check of the active object, so
\* anything but a mesh makes mode_set / from_edit_mesh raise
SmoothVoxelTerrain(f) ==
    /\ op = "none"
    /\ op' = "smooth"
    /\ arg' = f
    /\ pre' = [co |-> co, select |-> select, edges |-> edges]
    /\ IF obj # "MESH"
       THEN /\ result' = "RuntimeError"
            /\ UNCHANGED co
       ELSE LET r == SmoothLoop(1, co, select, f)
            IN  /\ co' = r.co
                /\ result' = IF r.raised THEN "ZeroDivisionError" ELSE "FINISHED"
    /\ UNCHANGED <<obj, normal, select, edges, faces, uv_layer, texture, tile_x,
                   tile_y, filepath, texture_folder, reports, out,
                   exported_objects, log>>


(***************************************************************************)
(* AutoSculptTerrainOperator.auto_smooth_terrain                           *)
(***************************************************************************)
VAdd(a, b) == <<a[1] + b[1], a[2] + b[2], a[3] + b[3]>>
VSub(a, b) == <<a[1] - b[1], a[2] - b[2], a[3] - b[3]>>
VScale(k, a) == <<k * a[1], k * a[2], k * a[3]>>
LengthSq(a) == a[1] * a[1] + a[2] * a[2] + a[3] * a[3]

RECURSIVE VSum(_, _, _)
\* sum(normals, start) over the vertices of S
VSum(S, nrm, start) ==
    IF S = {} THEN start
    ELSE LET x == CHOOSE y \in S : TRUE
         IN  VAdd(nrm[x], VSum(S \ {x}, nrm, start))

\* flat_threshold = 0.01
flat_threshold == <<1, 100>>

\* avg_normal = sum(normals, bm.verts[0].normal) / len(normals), kept as the
\* undivided sum: avg_normal = NormalSum / len(normals)
NormalSum(sel, nrm) == VSum(SelectedVerts(sel), nrm, nrm[1])

\* (v.normal - avg_normal).length < flat_threshold, both sides squared and
\* multiplied by len(normals)^2 and the threshold's denominator
IsFlat(v, sel, nrm) ==
    LET k == Cardinality(SelectedVerts(sel))
        d == VSub(VScale(k, nrm[v]), NormalSum(sel, nrm))
    IN  LengthSq(d) * flat_threshold[2] * flat_threshold[2]
           < flat_threshold[1] * flat_threshold[1] * k * k

\* flat_verts = [v for v in selected_verts if ...]
FlatVerts(sel, nrm) == {v \in SelectedVerts(sel) : IsFlat(v, sel, nrm)}

\* avg_pos = sum(neighbor_positions, v.co) / (len(neighbor_positions) + 1)
AvgPos(v, pos) ==
    RDiv(RAdd(pos[v], RSum(OtherVerts(v), pos)),
         Rat(Cardinality(OtherVerts(v)) + 1))

RECURSIVE InPlacePass(_, _, _, _)
\* a pass that would assign v.co inside the first loop
InPlacePass(i, pos, sel, flat) ==
    IF i > NumVerts THEN pos
    ELSE IF i \notin SelectedVerts(sel) \/ i \in flat
         THEN InPlacePass(i + 1, pos, sel, flat)
         ELSE InPlacePass(i + 1, [pos EXCEPT ![i] = AvgPos(i, pos)], sel, flat)

RECURSIVE ComputeNewPositions(_, _, _, _, _)
\* the first loop of a pass: new_positions[v] = avg_pos, from vertex i on,
\* reading positions that no step of this loop writes
ComputeNewPositions(i, pos, sel, flat, new_positions) ==
    IF i > NumVerts THEN new_positions
    ELSE IF i \notin SelectedVerts(sel) \/ i \in flat
         THEN ComputeNewPositions(i + 1, pos, sel, flat, new_positions)
         ELSE ComputeNewPositions(i + 1, pos, sel, flat,
                                  (i :> AvgPos(i, pos)) @@ new_positions)

\* the second loop of a pass: for v, new_pos in new_positions.items(): v.co = new_pos
ApplyNewPositions(pos, new_positions) ==
    [v \in Verts |-> IF v \in DOMAIN new_positions THEN new_positions[v] ELSE pos[v]]

\* one iteration of "for _ in range(self.smooth_iterations)"
SmoothPass(i, pos, sel, flat) ==
    ApplyNewPositions(pos, ComputeNewPositions(i, pos, sel, flat, <<>>))

RECURSIVE SmoothPasses(_, _, _, _)
SmoothPasses(n, pos, sel, flat) ==
    IF n = 0 THEN pos
    ELSE SmoothPasses(n - 1, SmoothPass(1, pos, sel, flat), sel, flat)

\* smooth_iterations is an int property with min 1 (and max 100)
Iterations == 1..MaxIter

\* AutoSculptTerrainOperator.execute, which returns FINISHED whatever
\* auto_smooth_terrain returned
AutoSculptTerrain(n) ==
    /\ op = "none"
    /\ op' = "auto"
    /\ arg' = n
    /\ pre' = [co |-> co, select |-> select, edges |-> edges]
    /\ result' = "FINISHED"
    /\ IF obj # "MESH"
       THEN /\ reports' = Append(reports, <<"WARNING", "No valid mesh object selected">>)
            /\ out' = [kind |-> "auto", ret |-> "CANCELLED", flat |-> {}]
            /\ UNCHANGED co
       ELSE IF SelectedVerts(select) = {}
       THEN /\ reports' = Append(reports, <<"WARNING", "No vertices selected.">>)
            /\ out' = [kind |-> "auto", ret |-> "CANCELLED", flat |-> {}]
            /\ UNCHANGED co
       ELSE LET flat_verts == FlatVerts(select, normal)
            IN  /\ co' = SmoothPasses(n, co, select, flat_verts)
                /\ reports' = Append(reports,
                      <<"INFO", "Terrain smoothed while preserving flat surfaces.">>)
                /\ out' = [kind |-> "auto", ret |-> "FINISHED", flat |-> flat_verts]
    /\ UNCHANGED <<obj, normal, select, edges, faces, uv_layer, texture, tile_x,
                   tile_y, filepath, texture_folder, exported_objects, log>>

(***************************************************************************)
(* Meshes the smoothers start from.                                        *)
(***************************************************************************)
ObjTypes == {"MESH", "CURVE", "NONE"}
Heights == {0, 1, 2}
\* the zero normal is the normal of a vertex that belongs to no face
Normals == {<<0, 0, 0>>, <<0, 0, 1>>}
\* the edges of a ring through the vertices: every subset is a mesh
RingEdges == {{v, (v % NumVerts) + 1} : v \in Verts} \ {{1}}

NoMesh ==
    /\ co = [v \in Verts |-> Rat(0)]
    /\ normal = [v \in Verts |-> <<0, 0, 1>>]
    /\ select = [v \in Verts |-> FALSE]
    /\ edges = {}

NoFaces ==
    /\ faces = <<>>
    /\ uv_layer = FALSE
    /\ texture = <<>>
    /\ tile_x = 0
    /\ tile_y = 0

NoFiles ==
    /\ filepath = FALSE
    /\ texture_folder = FALSE

NotRun ==
    /\ op = "none"
    /\ arg = <<>>
    /\ result = "none"
    /\ reports = <<>>
    /\ pre = [co |-> co, select |-> select, edges |-> edges]
    /\ out = NoOut
    /\ exported_objects = <<>>
    /\ log = <<>>

InitSmooth ==
    /\ obj \in ObjTypes
    /\ co \in [Verts -> {Rat(h) : h \in Heights}]
    /\ select \in [Verts -> BOOLEAN]
    /\ edges \in SUBSET RingEdges
    /\ \E first \in Normals, last \in Normals :
          normal = [v \in Verts |->
                      IF v = 1 THEN first
                      ELSE IF v = NumVerts THEN last
                      ELSE <<0, 0, 1>>]
    /\ (obj # "MESH" => NoMesh)
    /\ NoFaces
    /\ NoFiles
    /\ NotRun

NextSmooth ==
    \/ \E f \in SmoothingFactors : SmoothVoxelTerrain(f)
    \/ \E n \in Iterations : AutoSculptTerrain(n)

SpecSmooth == InitSmooth /\ [][NextSmooth]_vars

(***************************************************************************)
(* Meshes with faces: a strip of triangles, face i on vertices i, i+1, i+2.*)
(* A UV coordinate is <<u, v>>, two rationals; every face has one loop per *)
(* corner carrying its own UV.                                             *)
(***************************************************************************)
FaceVerts == 1..(NumFaces + 2)

UV(un, ud, vn, vd) == <<Norm(un, ud), Norm(vn, vd)>>

Face(i, tri) == [verts |-> <<i, i + 1, i + 2>>, uvs |-> tri]

\* the vertices of the strip carry no smoothing data of interest
FlatStrip ==
    /\ co = [v \in FaceVerts |-> Rat(0)]
    /\ normal = [v \in FaceVerts |-> <<0, 0, 1>>]
    /\ edges = UNION {{{i, i + 1}, {i + 1, i + 2}, {i, i + 2}} : i \in 1..NumFaces}

(***************************************************************************)
(* SelectUVTileOperator.execute                                            *)
(***************************************************************************)
tile_size == 128
padding == 32

\* num_tiles_x, num_tiles_y: Python's // is floor division, as \div is
NumTiles(tex_size) == (tex_size - padding) \div (tile_size + padding)

OutOfBoundsStrict(tx, ty, tex_width, tex_height) ==
    tx > NumTiles(tex_width) \/ ty > NumTiles(tex_height)

\* if tile_x >= num_tiles_x or tile_y >= num_tiles_y
OutOfBounds(tx, ty, tex_width, tex_height) ==
    tx >= NumTiles(tex_width) \/ ty >= NumTiles(tex_height)

\* a maximum that takes in the trailing padding as well
PaddedMax(t, tex_size) ==
    RDiv(Rat(padding + (t + 1) * (tile_size + padding)), Rat(tex_size))

\* (padding + tile * (tile_size + padding)) / tex_size
TileMin(t, tex_size) == RDiv(Rat(padding + t * (tile_size + padding)), Rat(tex_size))

\* (padding + (tile + 1) * tile_size + tile * padding) / tex_size
TileMax(t, tex_size) ==
    RDiv(Rat(padding + (t + 1) * tile_size + t * padding), Rat(tex_size))

\* uv_x_min, uv_x_max, uv_y_min, uv_y_max
UVRect(tx, ty, tex_width, tex_height) ==
    [uv_x_min |-> TileMin(tx, tex_width),
     uv_x_max |-> TileMax(tx, tex_width),
     uv_y_min |-> RSub(Rat(1), TileMax(ty, tex_height)),
     uv_y_max |-> RSub(Rat(1), TileMin(ty, tex_height))]

InRectOpen(uv, r) ==
    /\ RLess(r.uv_x_min, uv[1]) /\ RLess(uv[1], r.uv_x_max)
    /\ RLess(r.uv_y_min, uv[2]) /\ RLess(uv[2], r.uv_y_max)

\* uv_x_min <= uv.x <= uv_x_max and uv_y_min <= uv.y <= uv_y_max
InRect(uv, r) ==
    /\ RLeq(r.uv_x_min, uv[1]) /\ RLeq(uv[1], r.uv_x_max)
    /\ RLeq(r.uv_y_min, uv[2]) /\ RLeq(uv[2], r.uv_y_max)

\* the inner loop over face.loops, with its break at the first hit
FaceSelected(face, r) == \E j \in 1..Len(face.uvs) : InRect(face.uvs[j], r)

RECURSIVE SelectLoop(_, _, _, _)
\* "for face in bm.faces" from face i on: v.select = True for the vertices
\* of a hit face, and selected_count += 1
SelectLoop(i, r, sel, selected_count) ==
    IF i > Len(faces) THEN [select |-> sel, selected_count |-> selected_count]
    ELSE IF FaceSelected(faces[i], r)
         THEN SelectLoop(i + 1, r,
                 [v \in DOMAIN sel |->
                     sel[v] \/ \E j \in 1..Len(faces[i].verts) : faces[i].verts[j] = v],
                 selected_count + 1)
         ELSE SelectLoop(i + 1, r, sel, selected_count)

SelectUVTile ==
    /\ op = "none"
    /\ op' = "select"
    /\ arg' = <<tile_x, tile_y>>
    /\ pre' = [co |-> co, select |-> select, edges |-> edges]
    /\ IF obj # "MESH"
       THEN /\ reports' = Append(reports, <<"WARNING", "No valid mesh object selected">>)
            /\ result' = "CANCELLED"
            /\ UNCHANGED <<select, out>>
       ELSE IF ~uv_layer
       THEN /\ reports' = Append(reports, <<"WARNING", "No active UV layer found">>)
            /\ result' = "CANCELLED"
            /\ UNCHANGED <<select, out>>
       ELSE IF texture = <<>>
       THEN /\ reports' = Append(reports, <<"WARNING", "No texture image found">>)
            /\ result' = "CANCELLED"
            /\ UNCHANGED <<select, out>>
       ELSE IF OutOfBounds(tile_x, tile_y, texture[1], texture[2])
       THEN /\ reports' = Append(reports,
                 <<"WARNING", "Tile is out of bounds for texture size">>)
            /\ result' = "CANCELLED"
            /\ UNCHANGED <<select, out>>
       ELSE LET r == UVRect(tile_x, tile_y, texture[1], texture[2])
                s == SelectLoop(1, r, select, 0)
            IN  /\ select' = s.select
                /\ out' = [kind |-> "select", rect |-> r,
                           selected_count |-> s.selected_count]
                /\ reports' = IF s.selected_count = 0
                              THEN Append(reports,
                                     <<"INFO", "No UVs were selected. Check UV layout.">>)
                              ELSE reports
                /\ result' = "FINISHED"
    /\ UNCHANGED <<obj, co, normal, edges, faces, uv_layer, texture, tile_x,
                   tile_y, filepath, texture_folder, exported_objects, log>>

\* UV triangles around the tiles of the textures below: inside tile (0,0)
\* of a 256 px texture; a corner exactly on a tile corner; outside every
\* tile; one corner inside only; inside in u but not in v; inside tile (6,6)
\* of a 1280 px texture
SelectTris ==
    {<<UV(1, 4, 1, 2), UV(1, 2, 1, 2), UV(1, 4, 3, 4)>>,
     <<UV(0, 1, 7, 8), UV(1, 8, 7, 8), UV(1, 8, 1, 1)>>,
     <<UV(0, 1, 0, 1), UV(1, 32, 0, 1), UV(0, 1, 1, 32)>>,
     <<UV(3, 4, 0, 1), UV(1, 1, 0, 1), UV(1, 2, 1, 2)>>,
     <<UV(1, 4, 1, 8), UV(1, 2, 1, 8), UV(1, 4, 1, 4)>>,
     <<UV(13, 16, 3, 16), UV(7, 8, 3, 16), UV(13, 16, 7, 32)>>}

\* texture.size: an image without data is 0 x 0
TextureSizes == {<<0, 0>>, <<256, 256>>, <<512, 256>>, <<1280, 1280>>}
\* tile_x, tile_y are int properties with min 0
TileIndexes == {0, 1, 6, 7, 10}
\* selections before the operator runs: nothing, the first vertex, everything
StripSelections ==
    {[v \in FaceVerts |-> FALSE], [v \in FaceVerts |-> v = 1], [v \in FaceVerts |-> TRUE]}

InitSelect ==
    /\ obj \in ObjTypes
    /\ FlatStrip
    /\ select \in StripSelections
    /\ \E tris \in [1..NumFaces -> SelectTris] :
          faces = [i \in 1..NumFaces |-> Face(i, tris[i])]
    /\ uv_layer \in BOOLEAN
    /\ texture \in TextureSizes \cup {<<>>}
    /\ tile_x \in TileIndexes
    /\ tile_y \in TileIndexes
    /\ (obj # "MESH" =>
          /\ select = [v \in FaceVerts |-> FALSE]
          /\ \A i \in 1..NumFaces : faces[i].uvs = faces[1].uvs
          /\ ~uv_layer /\ texture = <<>>)
    /\ NoFiles
    /\ NotRun

NextSelect == SelectUVTile

SpecSelect == InitSelect /\ [][NextSelect]_vars

(***************************************************************************)
(* SeparateMeshByUVTilesOperator.execute                                   *)
(***************************************************************************)
\* int(x): truncation toward zero
Trunc(r) == IF r[1] >= 0 THEN r[1] \div r[2] ELSE -((-r[1]) \div r[2])

\* (tile_x, tile_y) = (int(uv.x * 10), int(uv.y * 10))
TileKey(uv) == <<Trunc(RMul(uv[1], Rat(10))), Trunc(RMul(uv[2], Rat(10)))>>

\* tile_dict is a Python dict: a sequence of [key, faces] in insertion order.
\* tile_dict[key].add(face_index), inserting set() for a new key first
DictAdd(tile_dict, key, face_index) ==
    IF \E k \in 1..Len(tile_dict) : tile_dict[k].key = key
    THEN [k \in 1..Len(tile_dict) |->
            IF tile_dict[k].key = key
            THEN [key |-> key, faces |-> tile_dict[k].faces \cup {face_index}]
            ELSE tile_dict[k]]
    ELSE Append(tile_dict, [key |-> key, faces |-> {face_index}])

RECURSIVE GroupLoop(_, _, _)
\* "for face in bm.faces: for loop in face.loops", from loop j of face i on
GroupLoop(i, j, tile_dict) ==
    IF i > Len(faces) THEN tile_dict
    ELSE IF j > Len(faces[i].uvs) THEN GroupLoop(i + 1, 1, tile_dict)
    ELSE GroupLoop(i, j + 1, DictAdd(tile_dict, TileKey(faces[i].uvs[j]), i))

\* tuple comparison of Python: by tile_x, then by tile_y
KeyLess(a, b) == a[1] < b[1] \/ (a[1] = b[1] /\ a[2] < b[2])

\* list(tile_dict.keys()): the keys in insertion order
InsertionOrderKeys(tile_dict) == [k \in 1..Len(tile_dict) |-> tile_dict[k].key]

RECURSIVE SortKeys(_)
SortKeys(K) ==
    IF K = {} THEN <<>>
    ELSE LET m == CHOOSE a \in K : \A b \in K \ {a} : KeyLess(a, b)
         IN  <<m>> \o SortKeys(K \ {m})

\* sorted(tile_dict.keys())
SortedKeys(tile_dict) ==
    SortKeys({tile_dict[k].key : k \in 1..Len(tile_dict)})

\* tile_dict[(tile_x, tile_y)]
DictGet(tile_dict, key) ==
    LET k == CHOOSE n \in 1..Len(tile_dict) : tile_dict[n].key = key
    IN  tile_dict[k].faces

\* one iteration of step 4: the faces whose index is in the tile's set are
\* selected, duplicated and separated into a new object (the host is taken
\* to hand back that new object as selected_objects[-1]), named after the tile
NewObject(tile_dict, key) == [tile |-> key, faces |-> DictGet(tile_dict, key)]

\* the steps of the exporter, in program order, once the checks of the
\* active object and of the blend file path have passed
RootSteps ==
    <<<<"makedirs">>, <<"export_fbx", "split_root">>>>
    \o (IF texture_folder THEN <<<<"copy_textures">>>> ELSE <<>>)

RECURSIVE InterleavedTileSteps(_)
\* an exporter that would write each sub-mesh as soon as it is separated
InterleavedTileSteps(keys) ==
    IF keys = <<>> THEN <<>>
    ELSE <<<<"separate", Head(keys)>>, <<"export_fbx", Head(keys)>>>>
         \o InterleavedTileSteps(Tail(keys))

\* step 4: the loop over the sorted keys separates every sub-mesh into
\* exported_objects; only then the loop over exported_objects exports them
TileSteps(keys) ==
    [k \in 1..Len(keys) |-> <<"separate", keys[k]>>]
    \o [k \in 1..Len(keys) |-> <<"export_fbx", keys[k]>>]

SeparateByUVTiles ==
    /\ op = "none"
    /\ op' = "separate"
    /\ arg' = <<>>
    /\ pre' = [co |-> co, select |-> select, edges |-> edges]
    /\ IF obj # "MESH"
       THEN /\ reports' = Append(reports, <<"WARNING", "No valid mesh object selected">>)
            /\ result' = "CANCELLED"
            /\ UNCHANGED <<select, out, exported_objects, log>>
       ELSE IF ~filepath
       THEN /\ reports' = Append(reports,
                 <<"ERROR", "Save the blend file before exporting.">>)
            /\ result' = "CANCELLED"
            /\ UNCHANGED <<select, out, exported_objects, log>>
       ELSE IF ~uv_layer
       THEN /\ log' = log \o RootSteps
            /\ reports' = Append(reports, <<"WARNING", "No active UV layer found">>)
            /\ result' = "CANCELLED"
            /\ UNCHANGED <<select, out, exported_objects>>
       ELSE LET tile_dict == GroupLoop(1, 1, <<>>)
                keys == SortedKeys(tile_dict)
                objects == [k \in 1..Len(keys) |-> NewObject(tile_dict, keys[k])]
            IN  IF tile_dict = <<>>
                THEN /\ log' = log \o RootSteps \o <<<<"group">>>>
                     /\ reports' = Append(reports,
                          <<"INFO", "No UV tile regions found in the mesh.">>)
                     /\ result' = "CANCELLED"
                     /\ out' = [kind |-> "separate", tile_dict |-> tile_dict]
                     /\ UNCHANGED <<select, exported_objects>>
                ELSE /\ exported_objects' = objects
                     /\ log' = log \o RootSteps \o <<<<"group">>>>
                               \o TileSteps(keys) \o <<<<"delete">>>>
                     \* select_all(action='DESELECT'); the duplicates, which
                     \* carry the selection, leave the mesh
                     /\ select' = [v \in DOMAIN select |-> FALSE]
                     /\ reports' = Append(reports,
                          <<"INFO", "Exported meshes", Len(objects)>>)
                     /\ result' = "FINISHED"
                     /\ out' = [kind |-> "separate", tile_dict |-> tile_dict]
    /\ UNCHANGED <<obj, co, normal, edges, faces, uv_layer, texture, tile_x,
                   tile_y, filepath, texture_folder>>

\* UV triangles on the 10 x 10 grid: inside tile (0,0); over tiles (0,0),
\* (1,0), (0,1); the same with its loops in reverse order; inside tile
\* (5,2); with negative u, over tiles (-1,0) and (0,0)
PartitionTris ==
    {<<UV(1, 16, 1, 16), UV(1, 32, 1, 16), UV(1, 16, 1, 32)>>,
     <<UV(1, 16, 1, 16), UV(1, 8, 1, 16), UV(1, 16, 1, 8)>>,
     <<UV(1, 16, 1, 8), UV(1, 8, 1, 16), UV(1, 16, 1, 16)>>,
     <<UV(1, 2, 1, 4), UV(9, 16, 1, 4), UV(1, 2, 9, 32)>>,
     <<UV(-1, 8, 1, 16), UV(-1, 16, 1, 16), UV(-1, 8, 1, 32)>>}

InitPartition ==
    /\ obj \in ObjTypes
    /\ FlatStrip
    /\ select \in StripSelections
    /\ \E n \in 0..NumFaces : \E tris \in [1..n -> PartitionTris] :
          faces = [i \in 1..n |-> Face(i, tris[i])]
    /\ uv_layer \in BOOLEAN
    /\ filepath \in BOOLEAN
    /\ texture_folder \in BOOLEAN
    /\ texture = <<>>
    /\ tile_x = 0
    /\ tile_y = 0
    /\ (obj # "MESH" => (faces = <<>> /\ ~uv_layer /\ select = [v \in FaceVerts |-> FALSE]))
    /\ NotRun

NextPartition == SeparateByUVTiles

SpecPartition == InitPartition /\ [][NextPartition]_vars

(***************************************************************************)
(* Properties of the smoothers.                                            *)
(***************************************************************************)
\* some selected vertex had, when the operator started, a selected
\* edge-neighbour at exactly its own position
CoincidentSelectedNeighbour ==
    \E v \in Verts : \E w \in Verts :
        /\ {v, w} \in pre.edges /\ v # w
        /\ pre.select[v] /\ pre.select[w]
        /\ pre.co[v] = pre.co[w]

\* C2: the basic weighted smoother never divides by zero: on a mesh where a
\* selected vertex has a selected edge-neighbour at distance 0, it completes
\* without an error, for every smoothing factor in [0,1].
C2_NeverDividesByZero ==
    (op = "smooth" /\ obj = "MESH" /\ CoincidentSelectedNeighbour)
        => result = "FINISHED"

\* C3: in the auto smoother, a non-empty selection whose vertex normals are
\* all identical has every selected vertex classified as flat, whatever the
\* normal of the mesh's first vertex is.
C3_IdenticalNormalsAllFlat ==
    (/\ op = "auto" /\ out.ret = "FINISHED"
     /\ \A v \in SelectedVerts(select) : \A w \in SelectedVerts(select) :
            normal[v] = normal[w])
        => out.flat = SelectedVerts(select)

\* C4: only permitted vertices move: the basic smoother leaves every
\* unselected vertex where it was, the auto smoother leaves every vertex that
\* is unselected or classified flat where it was, and neither changes the
\* edge set (nor the selection).
C4_OnlyPermittedVerticesMove ==
    /\ op = "smooth" =>
          \A v \in Verts : ~pre.select[v] => co[v] = pre.co[v]
    /\ op = "auto" =>
          \A v \in Verts : (~pre.select[v] \/ v \in out.flat) => co[v] = pre.co[v]
    /\ op \in {"smooth", "auto"} => (edges = pre.edges /\ select = pre.select)

\* the auto smoother moved a vertex while a flat selected vertex and an
\* unselected neighbour of the moved vertex stayed
C4_Witness ==
    /\ op = "auto"
    /\ out.flat # {}
    /\ \E v \in Verts : \E u \in Verts :
          /\ co[v] # pre.co[v]
          /\ {u, v} \in edges /\ ~select[u] /\ pre.co[u] # pre.co[v]

\* one pass as the claim states it: every selected non-flat vertex goes to
\* the unweighted mean of itself and all its edge-neighbours, all read from
\* the positions p at the start of the pass
JacobiPass(p, flat) ==
    [v \in Verts |->
        IF select[v] /\ v \notin flat
        THEN LET adj == {w \in Verts : {v, w} \in edges /\ w # v}
             IN  RDiv(RSum(adj \cup {v}, p), Rat(Cardinality(adj) + 1))
        ELSE p[v]]

RECURSIVE JacobiPasses(_, _, _)
JacobiPasses(n, p, flat) ==
    IF n = 0 THEN p ELSE JacobiPasses(n - 1, JacobiPass(p, flat), flat)

\* C10: each of the N passes of the flat-preserving smoother is a Jacobi
\* pass: the new position of every selected non-flat vertex is the mean of
\* its own and its neighbours' positions at the start of that pass.
C10_JacobiPasses ==
    (op = "auto" /\ out.ret = "FINISHED")
        => co = JacobiPasses(arg, pre.co, out.flat)

\* two passes ran over two adjacent moving vertices, where an in-place
\* update would read an already moved neighbour
C10_Witness ==
    /\ op = "auto" /\ out.ret = "FINISHED" /\ arg = 2
    /\ \E v \in Verts : \E w \in Verts :
          /\ v # w /\ {v, w} \in edges
          /\ select[v] /\ select[w] /\ v \notin out.flat /\ w \notin out.flat
          /\ co[v] # pre.co[v] /\ co[w] # pre.co[w]
          /\ co # InPlacePass(1, InPlacePass(1, pre.co, select, out.flat),
                              select, out.flat)

(***************************************************************************)
(* Properties of the UV tile selector.                                     *)
(***************************************************************************)
\* the operator got as far as the bounds check
ReachedBoundsCheck == op = "select" /\ obj = "MESH" /\ uv_layer /\ texture # <<>>

\* columns and rows as the claim computes them
Columns == (texture[1] - 32) \div (128 + 32)
Rows == (texture[2] - 32) \div (128 + 32)

\* C5: a request with tileX >= columns or tileY >= rows is rejected with an
\* out-of-bounds report instead of being clamped, and no vertex selection
\* flag changes; a 1280x1280 texture has 7 columns.
C5_OutOfBoundsRejected ==
    /\ (ReachedBoundsCheck /\ (tile_x >= Columns \/ tile_y >= Rows)) =>
          /\ result = "CANCELLED"
          /\ reports = <<<<"WARNING", "Tile is out of bounds for texture size">>>>
          /\ select = pre.select
          /\ out = NoOut
    /\ (ReachedBoundsCheck /\ texture = <<1280, 1280>>) => Columns = 7

\* tile (10,10) of a 1280x1280 texture was rejected on a mesh one of whose
\* faces lies in the last tile, which a clamped request would have selected
C5_Witness ==
    /\ ReachedBoundsCheck
    /\ texture = <<1280, 1280>> /\ tile_x = 10 /\ tile_y = 10
    /\ result = "CANCELLED"
    /\ \E i \in 1..Len(faces) : FaceSelected(faces[i], UVRect(6, 6, 1280, 1280))
    /\ \E v \in FaceVerts : ~select[v]

\* pixel bounds as the claim states them
XMin == 32 + tile_x * 160
YMin == 32 + tile_y * 160

\* C6: for an in-bounds tile the rectangle is xMin = 32 + tileX*160,
\* xMax = xMin + 128 (y alike), divided by the texture size, v flipped as
\* 1 - y/height; uMin < uMax and vMin < vMax; tile (0,0) of a 1280x1280
\* texture has uMin = 32/1280 and uMax = 160/1280.
C6_TileRectangle ==
    (op = "select" /\ result = "FINISHED") =>
        /\ RMul(out.rect.uv_x_min, Rat(texture[1])) = Rat(XMin)
        /\ RMul(out.rect.uv_x_max, Rat(texture[1])) = Rat(XMin + 128)
        /\ RMul(RSub(Rat(1), out.rect.uv_y_max), Rat(texture[2])) = Rat(YMin)
        /\ RMul(RSub(Rat(1), out.rect.uv_y_min), Rat(texture[2])) = Rat(YMin + 128)
        /\ RLess(out.rect.uv_x_min, out.rect.uv_x_max)
        /\ RLess(out.rect.uv_y_min, out.rect.uv_y_max)
        /\ (texture = <<1280, 1280>> /\ tile_x = 0 /\ tile_y = 0) =>
              /\ out.rect.uv_x_min = <<1, 40>> /\ out.rect.uv_x_max = <<1, 8>>
              /\ out.rect.uv_y_min = <<7, 8>> /\ out.rect.uv_y_max = <<39, 40>>

\* tile (0,0) of a 1280x1280 texture was resolved
C6_Witness ==
    /\ op = "select" /\ result = "FINISHED"
    /\ texture = <<1280, 1280>> /\ tile_x = 0 /\ tile_y = 0
    /\ out.rect.uv_x_min = <<1, 40>> /\ out.rect.uv_x_max = <<1, 8>>

\* the faces with at least one loop whose UV lies in the closed pixel
\* rectangle of the requested tile, compared in pixels
MatchedFaces ==
    {i \in 1..Len(faces) :
        \E j \in 1..Len(faces[i].uvs) :
            LET u == faces[i].uvs[j][1]
                v == faces[i].uvs[j][2]
                W == texture[1]
                H == texture[2]
            IN  /\ XMin * u[2] <= u[1] * W
                /\ u[1] * W <= (XMin + 128) * u[2]
                /\ (H - (YMin + 128)) * v[2] <= v[1] * H
                /\ v[1] * H <= (H - YMin) * v[2]}

\* C7: with an in-bounds tile, a face counts as matched iff one of its
\* loops has its UV in the closed rectangle; every vertex of a matched face
\* is selected; the count is the number of matched faces; a count of zero
\* is reported as an information and the operator still finishes.
C7_RectangleSelection ==
    (op = "select" /\ result = "FINISHED") =>
        /\ out.selected_count = Cardinality(MatchedFaces)
        /\ \A i \in MatchedFaces : \A j \in 1..Len(faces[i].verts) :
              select[faces[i].verts[j]]
        /\ (out.selected_count = 0) <=>
              (reports = <<<<"INFO", "No UVs were selected. Check UV layout.">>>>)

\* a face with a single loop inside the rectangle was matched, and the
\* vertices of its other corners became selected
C7_Witness ==
    /\ op = "select" /\ result = "FINISHED"
    /\ \E i \in MatchedFaces :
          /\ Cardinality({j \in 1..3 : InRect(faces[i].uvs[j], out.rect)}) = 1
          /\ \E j \in 1..3 : ~InRect(faces[i].uvs[j], out.rect)
                                /\ ~pre.select[faces[i].verts[j]]
                                /\ select[faces[i].verts[j]]
    /\ out.selected_count = 1

(***************************************************************************)
(* Properties of the UV tile partitioner.                                  *)
(***************************************************************************)
RECURSIVE FaceCountSum(_)
\* the face count of the sub-meshes merged again
FaceCountSum(objects) ==
    IF objects = <<>> THEN 0
    ELSE Cardinality(Head(objects).faces) + FaceCountSum(Tail(objects))

\* C1: partitioning and re-merging reproduces the face count: every face,
\* also one whose loops map to different tiles, is in exactly one sub-mesh,
\* so the sub-meshes' face counts add up to the face count of the mesh.
C1_FaceCountRoundTrip ==
    (op = "separate" /\ result = "FINISHED") =>
        /\ FaceCountSum(exported_objects) = Len(faces)
        /\ \A i \in 1..Len(faces) :
              Cardinality({k \in 1..Len(exported_objects) :
                              i \in exported_objects[k].faces}) = 1

\* the tile keys of the mesh and the faces recorded for a key
MeshKeys == {TileKey(faces[i].uvs[j]) : i \in 1..Len(faces), j \in 1..3}
FacesOfKey(key) ==
    {i \in 1..Len(faces) : \E j \in 1..Len(faces[i].uvs) : TileKey(faces[i].uvs[j]) = key}

\* C8: exactly one sub-mesh per non-empty tile group, produced in ascending
\* order of tileX and then tileY, whatever order the grouping met the keys
\* in; the i-th sub-mesh holds exactly the faces recorded for the i-th key.
C8_DeterministicOrder ==
    (op = "separate" /\ result = "FINISHED") =>
        /\ Len(exported_objects) = Cardinality(MeshKeys)
        /\ {exported_objects[k].tile : k \in 1..Len(exported_objects)} = MeshKeys
        /\ \A k \in 1..(Len(exported_objects) - 1) :
              LET a == exported_objects[k].tile
                  b == exported_objects[k + 1].tile
              IN  a[1] < b[1] \/ (a[1] = b[1] /\ a[2] < b[2])
        /\ \A k \in 1..Len(exported_objects) :
              exported_objects[k].faces = FacesOfKey(exported_objects[k].tile)

\* the grouping met the keys in an order that is not the sorted one, and
\* three or more sub-meshes were produced
C8_Witness ==
    /\ op = "separate" /\ result = "FINISHED"
    /\ Len(exported_objects) >= 3
    /\ InsertionOrderKeys(out.tile_dict) # SortedKeys(out.tile_dict)

\* C9: an operation that aborts on a failed precondition has reported a
\* warning or an information and has changed nothing: no vertex position,
\* no selection flag, no sub-mesh, no exported file, no copied texture folder.
C9_CleanAbort ==
    (op # "none" /\ (result = "CANCELLED" \/ (op = "auto" /\ out.ret = "CANCELLED"))) =>
        /\ reports # <<>>
        /\ co = pre.co
        /\ select = pre.select
        /\ exported_objects = <<>>
        /\ \A k \in 1..Len(log) : log[k][1] \notin {"export_fbx", "copy_textures"}

\* the positions in the log of the file exports and texture folder copies,
\* and of the steps of the partitioning proper
IOSteps == {k \in 1..Len(log) : log[k][1] \in {"export_fbx", "copy_textures"}}
CoreSteps == {k \in 1..Len(log) : log[k][1] \in {"group", "separate"}}

\* C11: in the split-mesh export no file export or texture folder copy lies
\* between the grouping of the faces and the extraction of the last
\* sub-mesh: each one comes before the grouping or after the last
\* extraction, and all sub-meshes exist before the first of them is exported.
C11_IONotInterleaved ==
    (op = "separate") =>
        /\ \A k \in IOSteps :
              \/ \A j \in CoreSteps : k < j
              \/ \A j \in CoreSteps : j < k
        /\ \A k \in IOSteps : \A j \in CoreSteps :
              (log[k][1] = "export_fbx" /\ log[k][2] # "split_root") => j < k
        /\ \A k \in IOSteps :
              (log[k][1] = "copy_textures" \/ log[k][2] = "split_root")
                  => \A j \in CoreSteps : k < j

\* an export that made three sub-meshes and copied the texture folder:
\* exports and a copy before the grouping, three exports after the last
\* extraction
C11_Witness ==
    /\ op = "separate" /\ result = "FINISHED"
    /\ Cardinality({k \in CoreSteps : log[k][1] = "separate"}) >= 3
    /\ \E k \in IOSteps : log[k][1] = "copy_textures"
    /\ Cardinality({k \in IOSteps : \A j \in CoreSteps : j < k}) >= 3

=============================================================================
